---- MODULE Spec2Model ----
(***************************************************************************)
(* Model of src/main.rs: the leaper ("knight") shortest-path search and    *)
(* the aggregation of its reports into a symmetric matrix.                 *)
(*                                                                         *)
(* A Position, a Move, a Direction and an Ability are pairs <<a, b>>.      *)
(* Spec        drives run(n) followed by finalize (knights_on_board/main). *)
(* LiveSpec    is Spec with the fairness of a sequential program.          *)
(* SpecSearch  calls report(knight, goal) on one knight and one goal.      *)
(***************************************************************************)
EXTENDS Integers, Sequences, FiniteSets, TLC

VARIABLES
    n,            \* the argument of run
    pc,           \* position of the program
    knights,      \* run: the knights still to be reported
    knight,       \* report: the Ability searching
    goal,         \* report: the goal Position (also the board size)
    queue,        \* find_shortest_path: the frontier VecDeque
    visited,      \* find_shortest_path: the HashSet
    parents,      \* find_shortest_path: the HashMap child -> parent
    pushed,       \* history: every position given to queue.push_back, in order
    current,      \* Path::new: the position being walked back
    path,         \* Path::new / the Path returned
    steps,        \* report: the step count returned
    data,         \* run / Reports.data
    side,         \* Reports.n
    new_reports,  \* finalize: the matrix being filled
    fr,           \* finalize: row loop counter
    fc,           \* finalize: column loop counter
    filled        \* history: the slots of new_reports assigned from a report

vars == <<n, pc, knights, knight, goal, queue, visited, parents, pushed,
          current, path, steps, data, side, new_reports, fr, fc, filled>>

searchVars == <<queue, visited, parents, pushed, current, path, steps>>
finalVars == <<new_reports, fr, fc, filled>>

\* ---------------------------------------------------------------- bounds
MaxBoard == 8       \* largest valid n given to run
MaxGoal == 6        \* largest goal coordinate given to report directly
MaxAbility == 5     \* largest magnitude of a knight given to report directly

\* ------------------------------------------------------ program constants
MinN == 5
MaxN == 25
Start == <<1, 1>>

\* ------------------------------------------------------------- leaper
DIRECTIONS == << <<1, 1>>, <<1, -1>>, <<-1, 1>>, <<-1, -1>> >>

reverse(k) == <<k[2], k[1]>>

MoveNew(k, d) == <<k[1] * d[1], k[2] * d[2]>>

movesNoReverse(k) == [i \in 1..4 |-> MoveNew(k, DIRECTIONS[i])]

movesNoDedup(k) ==
    [i \in 1..4 |-> MoveNew(k, DIRECTIONS[i])]
        \o [i \in 1..4 |-> MoveNew(reverse(k), DIRECTIONS[i])]

moves(k) ==
    IF k[1] = k[2]
    THEN [i \in 1..4 |-> MoveNew(k, DIRECTIONS[i])]
    ELSE [i \in 1..4 |-> MoveNew(k, DIRECTIONS[i])]
             \o [i \in 1..4 |-> MoveNew(reverse(k), DIRECTIONS[i])]

is_valid(pos, board_size) ==
    /\ pos[1] >= 1
    /\ pos[2] >= 1
    /\ pos[1] <= board_size[1]
    /\ pos[2] <= board_size[2]

valid_moves(k, cur, board_size) ==
    LET ms == moves(k)
        cand == [i \in 1..Len(ms) |-> <<cur[1] + ms[i][1], cur[2] + ms[i][2]>>]
        Keep(p) == is_valid(p, board_size)
    IN SelectSeq(cand, Keep)

\* ------------------------------------------------------------- search
InsertSelf(map, key, val) == (key :> key) @@ map

\* HashMap::insert: the new value replaces an old one
Insert(map, key, val) == (key :> val) @@ map

RECURSIVE VisitNoMark(_, _, _, _, _, _)
VisitNoMark(nexts, cur, q, v, p, h) ==
    IF nexts = <<>>
    THEN [queue |-> q, visited |-> v, parents |-> p, pushed |-> h]
    ELSE IF Head(nexts) \notin v
    THEN VisitNoMark(Tail(nexts), cur, Append(q, Head(nexts)), v,
              Insert(p, Head(nexts), cur), Append(h, Head(nexts)))
    ELSE VisitNoMark(Tail(nexts), cur, q, v, p, h)

RECURSIVE VisitLifo(_, _, _, _, _, _)
VisitLifo(nexts, cur, q, v, p, h) ==
    IF nexts = <<>>
    THEN [queue |-> q, visited |-> v, parents |-> p, pushed |-> h]
    ELSE IF Head(nexts) \notin v
    THEN VisitLifo(Tail(nexts), cur, <<Head(nexts)>> \o q, v \cup {Head(nexts)},
              Insert(p, Head(nexts), cur), Append(h, Head(nexts)))
    ELSE VisitLifo(Tail(nexts), cur, q, v, p, h)

\* the for loop of find_shortest_path over the valid moves of one position
RECURSIVE Visit(_, _, _, _, _, _)
Visit(nexts, cur, q, v, p, h) ==
    IF nexts = <<>>
    THEN [queue |-> q, visited |-> v, parents |-> p, pushed |-> h]
    ELSE IF Head(nexts) \notin v
    THEN Visit(Tail(nexts), cur, Append(q, Head(nexts)), v \cup {Head(nexts)},
              Insert(p, Head(nexts), cur), Append(h, Head(nexts)))
    ELSE Visit(Tail(nexts), cur, q, v, p, h)

PathReverse(p) == [i \in 1..Len(p) |-> p[Len(p) + 1 - i]]

step_countLen(p) == IF p = <<>> THEN -1 ELSE Len(p)

step_count(p) == IF p = <<>> THEN -1 ELSE Len(p) - 1

\* ------------------------------------------------------------- reports
InRangeExclusive(m) == MinN < m /\ m < MaxN

InRange(m) == MinN <= m /\ m <= MaxN

RECURSIVE KnightsColumnMajor(_, _, _)
KnightsColumnMajor(m, r, c) ==
    IF c >= m THEN <<>>
    ELSE IF r >= m THEN KnightsColumnMajor(m, 1, c + 1)
    ELSE (IF r <= c THEN << <<r, c>> >> ELSE <<>>) \o KnightsColumnMajor(m, r + 1, c)

\* the nested loops of run that push Ability(r, c), from (r, c) on
RECURSIVE Knights(_, _, _)
Knights(m, r, c) ==
    IF r >= m THEN <<>>
    ELSE IF c >= m THEN Knights(m, r + 1, 1)
    ELSE (IF r <= c THEN << <<r, c>> >> ELSE <<>>) \o Knights(m, r, c + 1)

SideSame(m) == m

Side(m) == m - 1

get_idx(sz, r, c) == (r - 1) * sz + (c - 1)

to_2dvec(d, sz) ==
    [r \in 1..(Len(d) \div sz) |-> SubSeq(d, (r - 1) * sz + 1, r * sz)]

\* ---------------------------------------------------------------- Init
Inputs == {-1, 0, MinN - 1} \cup (MinN..MaxBoard) \cup {MaxN + 1, MaxN + 2}

Idle ==
    /\ queue = <<>>
    /\ visited = {}
    /\ parents = <<>>
    /\ pushed = <<>>
    /\ current = Start
    /\ path = <<>>
    /\ steps = 0
    /\ data = <<>>
    /\ side = 0
    /\ new_reports = <<>>
    /\ fr = 0
    /\ fc = 0
    /\ filled = {}

Init ==
    /\ n \in Inputs
    /\ pc = "run"
    /\ knights = <<>>
    /\ knight = <<0, 0>>
    /\ goal = <<0, 0>>
    /\ Idle

InitSearch ==
    /\ n = 0
    /\ pc = "report"
    /\ knights = <<>>
    /\ knight \in (1..MaxAbility) \X (1..MaxAbility)
    /\ goal \in (1..MaxGoal) \X (1..MaxGoal)
    /\ Idle

\* ------------------------------------------------------------- actions
\* run: n outside 5..=25
RunInvalid ==
    /\ pc = "run"
    /\ ~InRange(n)
    /\ pc' = "err"
    /\ UNCHANGED <<n, knights, knight, goal, data, side>>
    /\ UNCHANGED searchVars
    /\ UNCHANGED finalVars

\* run: build the knights, the goal and the empty data
RunKnights ==
    /\ pc = "run"
    /\ InRange(n)
    /\ knights' = Knights(n, 1, 1)
    /\ goal' = <<n, n>>
    /\ data' = <<>>
    /\ pc' = "loop"
    /\ UNCHANGED <<n, knight, side>>
    /\ UNCHANGED searchVars
    /\ UNCHANGED finalVars

\* run: for knight in knights, call report(&knight, &goal)
RunReport ==
    /\ pc = "loop"
    /\ knights # <<>>
    /\ knight' = Head(knights)
    /\ knights' = Tail(knights)
    /\ pc' = "report"
    /\ UNCHANGED <<n, goal, data, side>>
    /\ UNCHANGED searchVars
    /\ UNCHANGED finalVars

\* find_shortest_path: the set-up before the loop
SearchStart ==
    /\ pc = "report"
    /\ queue' = <<Start>>
    /\ pushed' = <<Start>>
    /\ visited' = {Start}
    /\ parents' = <<>>
    /\ path' = <<>>
    /\ current' = Start
    /\ pc' = "search"
    /\ UNCHANGED <<n, knights, knight, goal, steps, data, side>>
    /\ UNCHANGED finalVars

\* find_shortest_path: one iteration that dequeues a position other than goal
SearchVisit ==
    /\ pc = "search"
    /\ queue # <<>>
    /\ Head(queue) # goal
    /\ LET current_pos == Head(queue)
           st == Visit(valid_moves(knight, current_pos, goal), current_pos,
                       Tail(queue), visited, parents, pushed)
       IN /\ queue' = st.queue
          /\ visited' = st.visited
          /\ parents' = st.parents
          /\ pushed' = st.pushed
    /\ UNCHANGED <<n, pc, knights, knight, goal, current, path, steps, data, side>>
    /\ UNCHANGED finalVars

\* find_shortest_path: the goal is dequeued, Path::new begins
SearchGoal ==
    /\ pc = "search"
    /\ queue # <<>>
    /\ Head(queue) = goal
    /\ queue' = Tail(queue)
    /\ path' = <<goal>>
    /\ current' = goal
    /\ pc' = "path"
    /\ UNCHANGED <<n, knights, knight, goal, visited, parents, pushed, steps, data, side>>
    /\ UNCHANGED finalVars

\* find_shortest_path: the queue is empty, Path::empty()
SearchFail ==
    /\ pc = "search"
    /\ queue = <<>>
    /\ path' = <<>>
    /\ pc' = "returned"
    /\ UNCHANGED <<n, knights, knight, goal, queue, visited, parents, pushed,
                   current, steps, data, side>>
    /\ UNCHANGED finalVars

\* Path::new: one iteration of the walk back (unwrap panics on a missing key)
PathStep ==
    /\ pc = "path"
    /\ current # Start
    /\ IF current \in DOMAIN parents
       THEN /\ current' = parents[current]
            /\ path' = Append(path, parents[current])
            /\ pc' = "path"
       ELSE /\ pc' = "panic_unwrap"
            /\ UNCHANGED <<current, path>>
    /\ UNCHANGED <<n, knights, knight, goal, queue, visited, parents, pushed,
                   steps, data, side>>
    /\ UNCHANGED finalVars

\* Path::new: the walk reached start, reverse and return
PathDone ==
    /\ pc = "path"
    /\ current = Start
    /\ path' = PathReverse(path)
    /\ pc' = "returned"
    /\ UNCHANGED <<n, knights, knight, goal, queue, visited, parents, pushed,
                   current, steps, data, side>>
    /\ UNCHANGED finalVars

\* report: path.step_count()
ReportReturn ==
    /\ pc = "returned"
    /\ steps' = step_count(path)
    /\ pc' = "reported"
    /\ UNCHANGED <<n, knights, knight, goal, queue, visited, parents, pushed,
                   current, path, data, side>>
    /\ UNCHANGED finalVars

\* run: data.push_back(report(..))
RunPush ==
    /\ pc = "reported"
    /\ data' = Append(data, steps)
    /\ pc' = "loop"
    /\ UNCHANGED <<n, knights, knight, goal, side>>
    /\ UNCHANGED searchVars
    /\ UNCHANGED finalVars

\* run: Ok(Reports { data, n: n - 1 })
RunOk ==
    /\ pc = "loop"
    /\ knights = <<>>
    /\ side' = Side(n)
    /\ pc' = "ok"
    /\ UNCHANGED <<n, knights, knight, goal, data>>
    /\ UNCHANGED searchVars
    /\ UNCHANGED finalVars

\* finalize: allocate the zeroed matrix
FinalizeStart ==
    /\ pc = "ok"
    /\ new_reports' = [i \in 1..(side * side) |-> 0]
    /\ fr' = 1
    /\ fc' = 1
    /\ filled' = {}
    /\ pc' = "finalize"
    /\ UNCHANGED <<n, knights, knight, goal, data, side>>
    /\ UNCHANGED searchVars

NextCell ==
    IF fc < side THEN fr' = fr /\ fc' = fc + 1
                 ELSE fr' = fr + 1 /\ fc' = 1

\* finalize: a cell with r <= c takes the next report
FinalizeUpper ==
    /\ pc = "finalize"
    /\ fr <= side
    /\ fr <= fc
    /\ IF data = <<>>
       THEN /\ pc' = "panic_no_item"
            /\ UNCHANGED <<data, new_reports, fr, fc, filled>>
       ELSE /\ data' = Tail(data)
            /\ new_reports' = [new_reports EXCEPT ![get_idx(side, fr, fc) + 1] = Head(data)]
            /\ filled' = filled \cup {get_idx(side, fr, fc)}
            /\ NextCell
            /\ pc' = "finalize"
    /\ UNCHANGED <<n, knights, knight, goal, side>>
    /\ UNCHANGED searchVars

FinalizeLowerSelf ==
    /\ pc = "finalize"
    /\ fr <= side
    /\ fr > fc
    /\ new_reports' = [new_reports EXCEPT ![get_idx(side, fr, fc) + 1] =
                            new_reports[get_idx(side, fr, fc) + 1]]
    /\ NextCell
    /\ UNCHANGED <<n, pc, knights, knight, goal, data, side, filled>>
    /\ UNCHANGED searchVars

\* finalize: a cell with r > c copies its mirror cell
FinalizeLower ==
    /\ pc = "finalize"
    /\ fr <= side
    /\ fr > fc
    /\ new_reports' = [new_reports EXCEPT ![get_idx(side, fr, fc) + 1] =
                            new_reports[get_idx(side, fc, fr) + 1]]
    /\ NextCell
    /\ UNCHANGED <<n, pc, knights, knight, goal, data, side, filled>>
    /\ UNCHANGED searchVars

\* finalize: Reports { data: new_reports, n: self.n }
FinalizeDone ==
    /\ pc = "finalize"
    /\ fr > side
    /\ data' = new_reports
    /\ pc' = "done"
    /\ UNCHANGED <<n, knights, knight, goal, side>>
    /\ UNCHANGED searchVars
    /\ UNCHANGED finalVars

\* ------------------------------------------------------- specifications
Search ==
    \/ SearchStart
    \/ SearchVisit
    \/ SearchGoal
    \/ SearchFail
    \/ PathStep
    \/ PathDone
    \/ ReportReturn

Next ==
    \/ RunInvalid
    \/ RunKnights
    \/ RunReport
    \/ SearchStart
    \/ SearchVisit
    \/ SearchGoal
    \/ SearchFail
    \/ PathStep
    \/ PathDone
    \/ ReportReturn
    \/ RunPush
    \/ RunOk
    \/ FinalizeStart
    \/ FinalizeUpper
    \/ FinalizeLower
    \/ FinalizeDone

Spec == Init /\ [][Next]_vars

LiveSpec == Init /\ [][Next]_vars /\ WF_vars(Next)

SpecSearch == InitSearch /\ [][Search]_vars

\* ------------------------------------------------- graph of the leaper
\* the offsets of a leaper: every sign combination of (a, b) and of (b, a)
LeaperOffsets(k) ==
    {<<s * k[1], t * k[2]>> : s \in {-1, 1}, t \in {-1, 1}}
        \cup {<<s * k[2], t * k[1]>> : s \in {-1, 1}, t \in {-1, 1}}

OnBoard(g) == (1..g[1]) \X (1..g[2])

Neighbours(P, k, g) ==
    {<<po[1][1] + po[2][1], po[1][2] + po[2][2]>> : po \in P \X LeaperOffsets(k)}
        \cap OnBoard(g)

\* the graph distance from the frontier's level d to g, -1 when g is unreachable
RECURSIVE Levels(_, _, _, _, _)
Levels(frontier, seen, d, k, g) ==
    IF g \in frontier THEN d
    ELSE LET nx == Neighbours(frontier, k, g) \ seen IN
         IF nx = {} THEN -1 ELSE Levels(nx, seen \cup nx, d + 1, k, g)

MinMoves(k, g) == Levels({Start}, {Start}, 0, k, g)

MoveSet(k) == {moves(k)[i] : i \in 1..Len(moves(k))}

InSearch == pc \in {"search", "path", "returned", "reported"}

\* ---------------------------------------------------------------- C1
\* C1: when the goal (n, n) is reachable for a knight of run, the path
\* returned is non-empty, begins at start, ends at goal, stays inside
\* [1,n]x[1,n], moves by an offset of moves() at every step, and its step
\* count is the graph distance from start to goal.
ShortestPathFound ==
    (pc = "reported" /\ MinMoves(knight, goal) # -1) =>
        /\ path # <<>>
        /\ path[1] = Start
        /\ path[Len(path)] = goal
        /\ \A i \in 1..Len(path) : path[i] \in OnBoard(<<n, n>>)
        /\ \A i \in 1..(Len(path) - 1) :
              <<path[i + 1][1] - path[i][1], path[i + 1][2] - path[i][2]>>
                  \in MoveSet(knight)
        /\ steps = Len(path) - 1
        /\ steps = MinMoves(knight, goal)

ShortestPathFoundWitness ==
    /\ pc = "reported"
    /\ knight[1] # knight[2]
    /\ goal = <<n, n>>
    /\ Len(path) > 3
    /\ steps = MinMoves(knight, goal)

\* ---------------------------------------------------------------- C2
\* C2: the path returned is empty, and the step count reported is -1,
\* exactly when no sequence of the leaper's moves on the board leads from
\* start to goal; otherwise the count is non-negative.
EmptyIffUnreachable ==
    pc = "reported" =>
        /\ (path = <<>>) <=> (MinMoves(knight, goal) = -1)
        /\ (steps = -1) <=> (MinMoves(knight, goal) = -1)
        /\ (MinMoves(knight, goal) # -1) => steps >= 0

EmptyIffUnreachableWitness ==
    /\ pc = "reported"
    /\ knight = <<2, 2>>
    /\ goal = <<4, 4>>
    /\ path = <<>>
    /\ steps = -1

\* ---------------------------------------------------------------- C3
\* C3: run(n) ends in the InvalidInput error exactly when n < 5 or n > 25,
\* and then no search has run and no report exists.
RunRejectsOutOfRange ==
    /\ (pc # "run") => ((pc = "err") <=> (n < 5 \/ n > 25))
    /\ (pc = "err") =>
          /\ data = <<>>
          /\ knights = <<>>
          /\ pushed = <<>>
          /\ visited = {}
          /\ new_reports = <<>>

RunRejectsOutOfRangeWitness == pc = "err" /\ n = 26

\* ---------------------------------------------------------------- C4
\* C4: after run(n) and finalize, the entry (r, c) with 1 <= r <= c <= n-1
\* of the matrix is the step count of Ability(r, c) from (1,1) to (n,n);
\* the underflow panic is never reached and no report stays unconsumed.
MatrixHoldsStepCounts ==
    /\ pc # "panic_no_item"
    /\ (pc = "finalize" /\ fr > side) => data = <<>>
    /\ (pc = "done") =>
          \A r \in 1..(n - 1) : \A c \in r..(n - 1) :
              to_2dvec(data, side)[r][c] = MinMoves(<<r, c>>, <<n, n>>)

MatrixHoldsStepCountsWitness ==
    /\ pc = "done"
    /\ n = 6
    /\ Len(data) = 25
    /\ to_2dvec(data, side)[2][2] = -1
    /\ to_2dvec(data, side)[5][5] = 1
    /\ to_2dvec(data, side)[1][1] = 5

\* ---------------------------------------------------------------- C5
\* C5: the finalized matrix is (n-1)x(n-1) and symmetric, and a cell with
\* r > c is copied from its mirror cell only after a report filled it.
MatrixSymmetric ==
    /\ (pc = "done") =>
          LET M == to_2dvec(data, side) IN
          /\ Len(M) = n - 1
          /\ \A r \in 1..(n - 1) : Len(M[r]) = n - 1
          /\ \A r \in 1..(n - 1) : \A c \in 1..(n - 1) : M[r][c] = M[c][r]
    /\ (pc = "finalize" /\ fr <= side /\ fr > fc) =>
          get_idx(side, fc, fr) \in filled

MatrixSymmetricWitness ==
    /\ pc = "done"
    /\ n = 5
    /\ to_2dvec(data, side)[4][1] = to_2dvec(data, side)[1][4]
    /\ to_2dvec(data, side)[4][1] # 0

\* ---------------------------------------------------------------- C6
\* the position of the pair k among the pairs (r, c), 1 <= r <= c < m,
\* ordered by r and then by c
Rank(k, m) ==
    Cardinality({p \in (1..(m - 1)) \X (1..(m - 1)) :
                    /\ p[1] <= p[2]
                    /\ (p[1] < k[1] \/ (p[1] = k[1] /\ p[2] <= k[2]))})

\* C6: run(n) reports the pairs (r, c), 1 <= r <= c < n, once each in the
\* order r ascending then c ascending: n(n-1)/2 reports, side n-1.
ReportsTriangular ==
    /\ (pc = "reported" /\ n # 0) =>
          /\ 1 <= knight[1]
          /\ knight[1] <= knight[2]
          /\ knight[2] < n
          /\ Len(data) + 1 = Rank(knight, n)
    /\ (pc = "ok") =>
          /\ 2 * Len(data) = n * (n - 1)
          /\ side = n - 1

ReportsTriangularWitness ==
    /\ pc = "ok"
    /\ n = 7
    /\ Len(data) = 21
    /\ side = 6

\* ---------------------------------------------------------------- C7
\* C7: Ability(1,1) from (1,1) to (n,n) reports exactly n-1 steps.
DiagonalLeaper ==
    (pc = "reported" /\ knight = <<1, 1>> /\ goal[1] = goal[2]) =>
        steps = goal[1] - 1

DiagonalLeaperWitness ==
    /\ pc = "reported"
    /\ knight = <<1, 1>>
    /\ goal = <<5, 5>>
    /\ steps = 4

\* ---------------------------------------------------------------- C8
\* C8: moves() lists 8 pairwise distinct offsets when a # b, every sign
\* combination of (a, b) and of (b, a), and 4 pairwise distinct offsets
\* when a = b; it never lists an offset twice.
MovesDistinct ==
    LET ms == moves(knight) IN
    (knight[1] >= 1 /\ knight[2] >= 1) =>
        /\ \A i \in 1..Len(ms) : \A j \in 1..Len(ms) : ms[i] = ms[j] => i = j
        /\ Len(ms) = IF knight[1] # knight[2] THEN 8 ELSE 4
        /\ {ms[i] : i \in 1..Len(ms)} = LeaperOffsets(knight)

MovesDistinctWitness ==
    /\ pc = "search"
    /\ knight = <<2, 3>>
    /\ Len(pushed) > 1
    /\ Len(moves(knight)) = 8

\* ---------------------------------------------------------------- C9
\* C9: during a search no position is pushed onto the queue twice: the
\* queue is the undequeued tail of the pushes, every queued position is
\* visited, and every pushed position other than start is on the board
\* and has one recorded predecessor, recorded by one insert.
NoDoubleEnqueue ==
    InSearch =>
        /\ \A i \in 1..Len(pushed) : \A j \in 1..Len(pushed) :
              pushed[i] = pushed[j] => i = j
        /\ Len(queue) <= Len(pushed)
        /\ queue = SubSeq(pushed, Len(pushed) - Len(queue) + 1, Len(pushed))
        /\ \A i \in 1..Len(queue) : queue[i] \in visited
        /\ \A i \in 1..Len(queue) : \A j \in 1..Len(queue) :
              queue[i] = queue[j] => i = j
        /\ visited = {pushed[i] : i \in 1..Len(pushed)}
        /\ \A i \in 2..Len(pushed) :
              /\ pushed[i] \in (1..goal[1]) \X (1..goal[2])
              /\ pushed[i] \in DOMAIN parents
        /\ Start \notin DOMAIN parents
        /\ Cardinality(DOMAIN parents) = Len(pushed) - 1

NoDoubleEnqueueWitness ==
    /\ pc = "search"
    /\ Len(pushed) > 4
    /\ Len(queue) >= 2
    /\ Len(queue) < Len(pushed)

\* --------------------------------------------------------------- C10
Dequeues == Len(pushed) - Len(queue)

RECURSIVE Climb(_, _)
Climb(p, fuel) ==
    IF p = Start THEN TRUE
    ELSE IF fuel = 0 \/ p \notin DOMAIN parents THEN FALSE
    ELSE Climb(parents[p], fuel - 1)

SearchBounded ==
    /\ pc # "panic_unwrap"
    /\ InSearch =>
          /\ Dequeues <= n * n
          /\ Len(path) <= n * n
          /\ \A p \in visited : Climb(p, Cardinality(visited))

\* C10: every search of run terminates: it dequeues at most n*n positions,
\* the walk back of Path::new never misses a predecessor, and from every
\* visited position the predecessors lead to start.
SearchTerminates == []SearchBounded /\ ((pc = "report") ~> (pc = "reported"))

SearchTerminatesWitness ==
    /\ pc = "returned"
    /\ n = 6
    /\ knight = <<1, 2>>
    /\ Len(path) > 2
    /\ Dequeues > 10

====
